---- MODULE Spec2Model ----
(***************************************************************************)
(* A model of google_maps_image_scraper.py: the command-line retry loop    *)
(* (main), the pipeline of one attempt (scrape_location_images), the URL   *)
(* extraction (extract_image_urls, _extract_images_direct) with its ledger *)
(* (save_url_to_csv), and the download manager (download_image,            *)
(* download_all_images).                                                   *)
(*                                                                         *)
(* Several specifications share the module:                                *)
(*   SpecMain  main's retry loop, its drivers, message and exit code       *)
(*   SpecEx    one extraction run (SpecExFair adds the fairness of a       *)
(*             sequential program that keeps executing)                    *)
(*   SpecDL    successive download_all_images runs on one destination      *)
(*   SpecInt   a user interrupt during download_all_images                 *)
(*   SpecPipe  the stages of one scrape_location_images call               *)
(*   SpecRead  the read of one displayed element's src                     *)
(*   SpecNorm, SpecSan, SpecName  the URL normalisation, the file-name     *)
(*             sanitizer and the file name of a download                   *)
(*   SpecCsv, SpecLock  the ledger's path and its lock                     *)
(* The variables of the other parts stay at their idle values.             *)
(***************************************************************************)
EXTENDS Integers, Sequences, FiniteSets, TLC

\* ------------------------------------------------------------------ bounds
MaxRetry == 3
MaxFound == 2
MaxWorkers == 2
MaxUrls == 2
MaxRuns == 2
MaxGallery == 2
MaxCap == 1

\* ------------------------------------------------------------- main state
VARIABLES
    mpc,               \* position of main: "start", "loop", "report", "done"
    retry_attempts,    \* args.retry_attempts
    only_csv,          \* args.only_csv
    max_workers,       \* args.max_workers
    attempts,          \* main's attempts counter
    success,           \* main's success flag
    downloaded_count,  \* main's downloaded_count
    calls,             \* history: calls of scrape_location_images made
    outcomes,          \* history: what each call met
    exitCode,          \* value main returned, -1 while it runs
    interrupted,       \* history: a KeyboardInterrupt reached main
    raised,            \* history: an exception reached main's handler
    message,           \* the last line main printed about the outcome
    scraper,           \* number of GoogleMapsImageScraper objects constructed;
                       \* main's variable scraper names the latest
    quit,              \* scrapers whose driver was quit
    ranOn,             \* history: the scraper each call ran on
    counted            \* history: what download_all_images returned in the
                       \*   latest call, 0 when it was not called

mainVars == <<mpc, retry_attempts, only_csv, max_workers, attempts, success,
              downloaded_count, calls, outcomes, exitCode, interrupted, raised,
              message, scraper, quit, ranOn, counted>>

\* --------------------------------------------------------- download state
VARIABLES
    dlpc,                  \* download_all_images: "idle", "running", "returned",
                           \* "unwinding" (an interrupt left the with block),
                           \* "aborted" (the interrupt left the call)
    run,                   \* number of the current run on this destination
    kind,                  \* kind[i]: how the server of image_urls[i] answers
    dirExists,             \* the location directory exists
    disk,                  \* disk[i]: file <location>_<i><ext>: "missing", "empty", "data"
    diskAtStart,           \* history: disk when the current run started
    tpc,                   \* tpc[i]: position of task i in download_image
    tries,                 \* tries[i]: requests.get calls task i has made in this run
    resp,                  \* resp[i]: body of the response task i holds
    via,                   \* via[i]: the return statement task i left through
    collected,             \* futures whose result() main has consumed
    successful_downloads,  \* download_all_images' counter
    ioFault                \* history: a file write failed in this run

dlVars == <<dlpc, run, kind, dirExists, disk, diskAtStart, tpc, tries, resp, via,
            collected, successful_downloads, ioFault>>

\* ------------------------------------------------------- extraction state
VARIABLES
    epc,                 \* extract_image_urls: "idle", "start", "read", "exited",
                         \*   "returned", "raised"
    mode,                \* "none", "gallery" or "direct"
    save_csv,            \* self.save_csv (csv_path is set iff it is TRUE)
    max_images,          \* max_images, 0 for None
    image_urls,          \* the set image_urls
    last_count,          \* last_count
    scroll_attempts,     \* scroll_attempts
    consecutive_errors,  \* consecutive_errors
    url_index,           \* url_index
    found_image,         \* found_image of the current step
    sel,                 \* index of the img_selectors entry tried next
    ledger,              \* data rows of the CSV file, <<index, url>> each
    failedIdx,           \* history: indices whose append failed
    exitReason,          \* the break the gallery loop left through
    returned,            \* the list extract_image_urls returned
    pos,                 \* history: photo a plain gallery displays, else 0
    clean,               \* history: the surface behaved as a plain gallery,
                         \*   showing Photo(1), Photo(2), ... one per step
    discovered,          \* history of a run with the ledger enabled: the
                         \*   unique URLs in the order they were first added
    missed,              \* history: steps ended since an image was last found
    grew,                \* history: a URL was added since the last advance
    stalled              \* history: advances made since the last advance
                         \*   that followed the addition of a URL, counted
                         \*   up to max_scroll_attempts

exVars == <<epc, mode, save_csv, max_images, image_urls, last_count,
            scroll_attempts, consecutive_errors, url_index, found_image, sel,
            ledger, failedIdx, exitReason, returned, pos, clean, discovered,
            missed, grew, stalled>>

\* --------------------------------------------------------- pipeline state
VARIABLES
    ppc,      \* scrape_location_images: "idle", "search", "photos", "extract",
              \*   "download", "closed"
    stages,   \* history: the stages started, in order
    result    \* the (success, count) pair returned, <<>> before the return

pipeVars == <<ppc, stages, result>>

\* ------------------------------------------------- pure functions applied
VARIABLES
    fpc,      \* "idle", "input", "applied", "reapplied"
    farg,     \* the inputs
    fres      \* the values computed from them

fnVars == <<fpc, farg, fres>>

\* ---------------------------------------------------------- ledger files
VARIABLES
    now,       \* the wall clock, in whole seconds
    label,     \* label[r]: the location name run r was given
    cpc,       \* cpc[r]: "new", "created", "done"
    cpath,     \* cpath[r]: the ledger path create_csv_file returned to run r
    files,     \* the ledger files by path: the data rows <<run, index>> of each
    appended,  \* history: appended[r] is the number of rows run r appended
    summary    \* summary[r]: the ledger path and the URL count main printed
               \*   for run r, <<>> before

csvVars == <<now, label, cpc, cpath, files, appended, summary>>

\* ------------------------------------------------------ the ledger's lock
VARIABLES
    csv_lock,  \* self.csv_lock: 0 when free, else the thread holding it
    wpc,       \* wpc[t]: position of thread t
    wfile,     \* the pieces written to the ledger file, <<thread, call, piece>>
    wcalls,    \* wcalls[t]: calls of save_url_to_csv thread t has made
    wret       \* wret[t]: what the last call of thread t returned

lockVars == <<csv_lock, wpc, wfile, wcalls, wret>>

restVars == <<pipeVars, fnVars, csvVars, lockVars>>

vars == <<mainVars, dlVars, exVars, restVars>>

\* ------------------------------------------------ scrape_location_images
\* What one call met, from the results of its stages.
OutcomeKind(excn, searchOk, photosOk, nUrls, workers) ==
    IF excn THEN "exception"
    ELSE IF ~searchOk THEN "not_found"
    ELSE IF ~photosOk THEN "photos_failed"
    ELSE IF nUrls = 0 THEN "no_images"
    ELSE IF workers = 0 THEN "urls_only"
    ELSE "downloaded"

\* The (success, count) pair scrape_location_images returns.
ScrapeLocationImagesCountsFiles(excn, searchOk, photosOk, nUrls, workers, nDown) ==
    IF excn \/ ~searchOk \/ ~photosOk THEN <<FALSE, 0>>
    ELSE IF nUrls = 0 THEN <<TRUE, 0>>
    ELSE <<TRUE, nDown>>
ScrapeLocationImagesPropagates(excn, searchOk, photosOk, nUrls, workers, nDown) ==
    IF excn THEN <<>>
    ELSE IF ~searchOk \/ ~photosOk THEN <<FALSE, 0>>
    ELSE IF nUrls = 0 THEN <<TRUE, 0>>
    ELSE IF workers = 0 THEN <<TRUE, nUrls>>
    ELSE <<TRUE, nDown>>
ScrapeLocationImages(excn, searchOk, photosOk, nUrls, workers, nDown) ==
    IF excn THEN <<FALSE, 0>>
    ELSE IF ~searchOk THEN <<FALSE, 0>>
    ELSE IF ~photosOk THEN <<FALSE, 0>>
    ELSE IF nUrls = 0 THEN <<TRUE, 0>>
    ELSE IF workers = 0 THEN <<TRUE, nUrls>>
    ELSE <<TRUE, nDown>>

\* ------------------------------------------------------------------- main
\* The guard of main's while loop.
LoopGuardOffByOne(s, a, n) == ~s /\ a <= n
LoopGuard(s, a, n) == ~s /\ a < n

\* The break condition inside the loop.
Qualifies(s, c, oc) == s /\ (c > 0 \/ oc)

\* Lines 1081-1091: a new scraper is constructed after a failed attempt that
\* is not the last.
ReinitBeforeLastOnly(next, n, s) == next + 1 < n /\ ~s
Reinit(next, n, s) == next < n /\ ~s

\* Lines 1096-1122: the line the reporting block prints.  The branch of line
\* 1118 tests success inside the else of "if success" and is never taken.
ReportMessage(s, oc, csvFound) ==
    IF s
    THEN IF oc
         THEN IF csvFound THEN "saved_urls_to_csv" ELSE "no_csv_file_created"
         ELSE "downloaded_images"
    ELSE IF s THEN "no_images_found" ELSE "failed_after_attempts"

\* The exit code of the reporting block.
ExitCodeZeroNeedsImages(s, c) == IF s /\ c > 0 THEN 0 ELSE 1
ExitCodeOf(s, c) == IF s THEN 0 ELSE 1

\* The download manager before any call of download_all_images.
DLIdle ==
    /\ dlpc = "idle"
    /\ run = 0
    /\ kind = <<>>
    /\ dirExists = FALSE
    /\ disk = <<>>
    /\ diskAtStart = <<>>
    /\ tpc = <<>>
    /\ tries = <<>>
    /\ resp = <<>>
    /\ via = <<>>
    /\ collected = 0
    /\ successful_downloads = 0
    /\ ioFault = FALSE

\* The extractor before any call of extract_image_urls.
ExIdle ==
    /\ epc = "idle"
    /\ mode = "none"
    /\ save_csv = FALSE
    /\ max_images = 0
    /\ image_urls = {}
    /\ last_count = 0
    /\ scroll_attempts = 0
    /\ consecutive_errors = 0
    /\ url_index = 1
    /\ found_image = FALSE
    /\ sel = 1
    /\ ledger = <<>>
    /\ failedIdx = {}
    /\ exitReason = "none"
    /\ returned = <<>>
    /\ pos = 0
    /\ clean = FALSE
    /\ discovered = <<>>
    /\ missed = 0
    /\ grew = FALSE
    /\ stalled = 0

\* The pipeline before any call of scrape_location_images.
PipeIdle ==
    /\ ppc = "idle"
    /\ stages = <<>>
    /\ result = <<>>

\* No pure function is being exercised.
FnIdle ==
    /\ fpc = "idle"
    /\ farg = <<>>
    /\ fres = <<>>

\* No run has asked for a ledger file.
CsvIdle ==
    /\ now = 0
    /\ label = <<>>
    /\ cpc = <<>>
    /\ cpath = <<>>
    /\ files = <<>>
    /\ appended = <<>>
    /\ summary = <<>>

\* No thread uses the ledger's lock.
LockIdle ==
    /\ csv_lock = 0
    /\ wpc = <<>>
    /\ wfile = <<>>
    /\ wcalls = <<>>
    /\ wret = <<>>

InitMain ==
    /\ DLIdle
    /\ ExIdle
    /\ PipeIdle /\ FnIdle /\ CsvIdle /\ LockIdle
    /\ mpc = "start"
    /\ retry_attempts \in 0..MaxRetry
    /\ only_csv \in BOOLEAN
    /\ max_workers \in 0..MaxWorkers
    /\ attempts = 0
    /\ success = FALSE
    /\ downloaded_count = 0
    /\ calls = 0
    /\ outcomes = <<>>
    /\ exitCode = -1
    /\ interrupted = FALSE
    /\ raised = FALSE
    /\ message = "none"
    /\ scraper = 0
    /\ quit = {}
    /\ ranOn = <<>>
    /\ counted = 0

\* An exception reaches main's "except Exception": main returns 1.
MainRaise ==
    /\ mpc' = "done"
    /\ exitCode' = 1
    /\ raised' = TRUE
    /\ message' = "error_occurred"
    /\ UNCHANGED interrupted

\* Construction of the first scraper; webdriver.Chrome may raise.
MainStart ==
    /\ mpc = "start"
    /\ \E initOk \in BOOLEAN :
         IF initOk
         THEN /\ mpc' = "loop"
              /\ scraper' = 1
              /\ UNCHANGED <<exitCode, raised, interrupted, message>>
         ELSE MainRaise /\ UNCHANGED scraper
    /\ UNCHANGED <<retry_attempts, only_csv, max_workers, attempts, success,
                   downloaded_count, calls, outcomes, quit, ranOn, counted,
                   dlVars, exVars, restVars>>

\* One iteration of the retry loop.  scrape_location_images closes the
\* driver of the scraper it ran on in its finally clause (lines 1019-1021).
Attempt ==
    /\ mpc = "loop"
    /\ LoopGuard(success, attempts, retry_attempts)
    /\ \E excn, searchOk, photosOk, reinitOk \in BOOLEAN, nUrls \in 0..MaxFound :
       \E nDown \in 0..nUrls :
         LET workers == IF only_csv THEN 0 ELSE max_workers
             res == ScrapeLocationImages(excn, searchOk, photosOk, nUrls, workers, nDown)
             met == OutcomeKind(excn, searchOk, photosOk, nUrls, workers)
             next == attempts + 1
         IN  /\ calls' = calls + 1
             /\ outcomes' = Append(outcomes, met)
             /\ success' = res[1]
             /\ downloaded_count' = res[2]
             /\ ranOn' = Append(ranOn, scraper)
             /\ counted' = IF met = "downloaded" THEN nDown ELSE 0
             /\ quit' = quit \cup {scraper}
             /\ IF Qualifies(res[1], res[2], only_csv)
                THEN /\ mpc' = "report"
                     /\ UNCHANGED <<attempts, exitCode, raised, interrupted,
                                    message, scraper>>
                ELSE /\ attempts' = next
                     /\ IF Reinit(next, retry_attempts, res[1])
                        THEN IF reinitOk
                             THEN /\ mpc' = "loop"
                                  /\ scraper' = scraper + 1
                                  /\ UNCHANGED <<exitCode, raised, interrupted,
                                                 message>>
                             ELSE MainRaise /\ UNCHANGED scraper
                        ELSE /\ mpc' = "loop"
                             /\ UNCHANGED <<exitCode, raised, interrupted,
                                            message, scraper>>
    /\ UNCHANGED <<retry_attempts, only_csv, max_workers, dlVars, exVars, restVars>>

\* The loop condition is false: control reaches the reporting block.
LoopExit ==
    /\ mpc = "loop"
    /\ ~LoopGuard(success, attempts, retry_attempts)
    /\ mpc' = "report"
    /\ UNCHANGED <<retry_attempts, only_csv, max_workers, attempts, success,
                   downloaded_count, calls, outcomes, exitCode, interrupted, raised,
                   message, scraper, quit, ranOn, counted, dlVars, exVars, restVars>>

\* The reporting block; listing or reading the ledger may raise when the
\* run succeeded and a ledger is looked for.
Report ==
    /\ mpc = "report"
    /\ \E ioOk \in BOOLEAN, csvFound \in (IF success THEN BOOLEAN ELSE {FALSE}) :
         IF success /\ ~ioOk
         THEN MainRaise
         ELSE /\ mpc' = "done"
              /\ message' = ReportMessage(success, only_csv, csvFound)
              /\ exitCode' = ExitCodeOf(success, downloaded_count)
              /\ UNCHANGED <<raised, interrupted>>
    /\ UNCHANGED <<retry_attempts, only_csv, max_workers, attempts, success,
                   downloaded_count, calls, outcomes, scraper, quit, ranOn, counted,
                   dlVars, exVars, restVars>>

\* A KeyboardInterrupt between or inside the steps of main.
Interrupt ==
    /\ mpc \in {"start", "loop", "report"}
    /\ mpc' = "done"
    /\ exitCode' = 1
    /\ interrupted' = TRUE
    /\ message' = "interrupted_by_user"
    /\ UNCHANGED <<retry_attempts, only_csv, max_workers, attempts, success,
                   downloaded_count, calls, outcomes, raised, scraper, quit, ranOn,
                   counted, dlVars, exVars, restVars>>

NextMain == MainStart \/ Attempt \/ LoopExit \/ Report \/ Interrupt

SpecMain == InitMain /\ [][NextMain]_vars

\* ------------------------------------------------- claims on main (SpecMain)
Returned == mpc = "done" /\ ~interrupted /\ ~raised

AllNotFound == \A i \in 1..Len(outcomes) : outcomes[i] = "not_found"

\* C5: when every attempt fails because the location is not found, the retry
\* loop never makes more than retry_attempts calls of scrape_location_images,
\* and when main returns it has made exactly retry_attempts calls and the exit
\* code is 1.
C5_ExactlyNAttempts ==
    AllNotFound =>
        /\ calls <= retry_attempts
        /\ Returned => (calls = retry_attempts /\ exitCode = 1)

C5_Witness ==
    /\ Returned /\ AllNotFound
    /\ retry_attempts >= 2 /\ calls = retry_attempts /\ exitCode = 1

\* C6 (as claimed): the retry loop is left with fewer than retry_attempts
\* calls made only after a qualifying success (success with a non-zero count,
\* or success in URL-only mode); after any other attempt a further one is made.
C6_StopsEarlyOnlyOnQualifyingSuccess ==
    (mpc \in {"report", "done"} /\ ~interrupted /\ ~raised /\ calls < retry_attempts)
        => Qualifies(success, downloaded_count, only_csv)

\* C7: main returns 0 exactly when the last attempt reported success and
\* neither an interrupt nor an exception reached main (a success with zero
\* images included), and 1 otherwise: every attempt failed, no attempt was
\* made, a user interrupt, an unhandled exception.
C7_ExitCode ==
    mpc = "done" =>
        exitCode = (IF success /\ ~interrupted /\ ~raised THEN 0 ELSE 1)

C7_Witness ==
    /\ Returned /\ calls > 0 /\ success /\ downloaded_count = 0 /\ exitCode = 0

\* C22: when main returns after a last attempt that found the location and
\* its photos but no image, the line it printed is the one saying that no
\* images were found, not the line of a successful run.
C22_NoImagesHasItsOwnMessage ==
    (Returned /\ calls > 0 /\ outcomes[calls] = "no_images") =>
        message = "no_images_found"

\* C28: every call of scrape_location_images made by the retry loop runs on
\* a scraper constructed for it: no two calls run on the same scraper, no
\* call runs on a scraper whose driver was quit, and whenever the loop is
\* about to make a call the current scraper's driver is live.
C28_EveryAttemptOnFreshDriver ==
    /\ Len(ranOn) = calls
    /\ \A k \in 1..Len(ranOn) : ranOn[k] = k
    /\ \A j, k \in 1..Len(ranOn) : j < k => ranOn[j] # ranOn[k]
    /\ (mpc = "loop" /\ LoopGuard(success, attempts, retry_attempts)) =>
           (scraper = calls + 1 /\ scraper \notin quit)

C28_Witness ==
    /\ Returned /\ calls = 3 /\ ranOn = <<1, 2, 3>> /\ quit = {1, 2, 3}

\* C34: when main reports a successful run without --only-csv, the number
\* of downloaded images it prints is the number download_all_images counted
\* in the last attempt, and 0 when that attempt ran no download.
C34_ReportedCountIsDownloadCount ==
    (Returned /\ success /\ ~only_csv /\ message = "downloaded_images") =>
        downloaded_count = counted

\* The scrapers whose driver is open.
OpenDrivers == (1..scraper) \ quit

\* C33: at no time is more than one driver open, and when main returns (by
\* its return statements, not through an interrupt or an exception) every
\* driver it created has been quit, whatever retry_attempts is.
C33_EveryDriverIsQuit ==
    /\ Cardinality(OpenDrivers) <= 1
    /\ Returned => OpenDrivers = {}

\* ------------------------------------------------------------ download_image
\* How the server of a URL answers one requests.get:
\*   "ok"    a success status with a non-empty body
\*   "empty" a success status with an empty body
\*   "http"  a non-success status (raise_for_status raises HTTPError)
\*   "dead"  unreachable: every request ends in a transport error
\*   "flaky" a request ends in a transport error or answers like "ok"
UrlKinds == {"ok", "empty", "http", "dead", "flaky"}

\* max_retries of download_image.
max_retries == 3

\* What one requests.get followed by raise_for_status yields for a URL.
FetchOutcomes(k) ==
    CASE k = "ok" -> {"data"}
      [] k = "empty" -> {"empty"}
      [] k = "http" -> {"http_error"}
      [] k = "dead" -> {"transport_error"}
      [] OTHER -> {"data", "transport_error"}

\* The except clause of the retry loop: HTTPError and transport errors are
\* both RequestException, and either is retried while attempts remain.
RetriesAfter(err, made) == made < max_retries

\* The check made after the write: the file exists and is not empty.
WrittenOk(content) == content = "data"

\* The test of line 879 on the destination path.
FileExistsNonEmpty(content) == content = "data"
FileExists(content) == content # "missing"

Tasks == 1..Len(kind)

InFlight == {i \in Tasks : tpc[i] \in {"mkdir", "fetch", "save"}}

\* A task of the pool ends: download_image returns.
TaskReturns(i, how) ==
    /\ tpc' = [tpc EXCEPT ![i] = "done"]
    /\ via' = [via EXCEPT ![i] = how]

TaskSucceeded(i) == tpc[i] = "done" /\ via[i] \in {"exists", "written"}

\* main's variables when a component is exercised on its own.
MainIdle ==
    /\ mpc = "done"
    /\ retry_attempts = 0
    /\ only_csv = FALSE
    /\ attempts = 0
    /\ success = FALSE
    /\ downloaded_count = 0
    /\ calls = 0
    /\ outcomes = <<>>
    /\ exitCode = -1
    /\ interrupted = FALSE
    /\ raised = FALSE
    /\ message = "none"
    /\ scraper = 0
    /\ quit = {}
    /\ ranOn = <<>>
    /\ counted = 0

\* ThreadPoolExecutor(max_workers): a queued task is started only by a worker
\* that is free, and the pool has max_workers of them.
WorkerFreeUnbounded(running, workers) == TRUE
WorkerFree(running, workers) == running < workers

\* Lines 934-935: the counter after the result of one future.
CountEveryResult(n, ok) == n + 1
CountAfter(n, ok) == IF ok THEN n + 1 ELSE n

InitDL ==
    /\ ExIdle
    /\ MainIdle
    /\ PipeIdle /\ FnIdle /\ CsvIdle /\ LockIdle
    /\ max_workers \in 1..MaxWorkers
    /\ dlpc = "running"
    /\ run = 1
    /\ \E n \in 0..MaxUrls : kind \in [1..n -> UrlKinds]
    /\ dirExists \in BOOLEAN
    /\ disk = [i \in Tasks |-> "missing"]
    /\ diskAtStart = disk
    /\ tpc = [i \in Tasks |-> "queued"]
    /\ tries = [i \in Tasks |-> 0]
    /\ resp = [i \in Tasks |-> "none"]
    /\ via = [i \in Tasks |-> "none"]
    /\ collected = 0
    /\ successful_downloads = 0
    /\ ioFault = FALSE

\* A free worker of the pool takes the next queued task and runs it up to the
\* test of the location directory.  The workers go on taking queued tasks
\* while the executor is shut down with wait=True by the exit of the with
\* block, which cancels nothing.
TaskStart(i) ==
    /\ dlpc \in {"running", "unwinding"}
    /\ tpc[i] = "queued"
    /\ \A j \in 1..(i - 1) : tpc[j] # "queued"
    /\ WorkerFree(Cardinality(InFlight), max_workers)
    /\ tpc' = [tpc EXCEPT ![i] = IF dirExists THEN "fetch" ELSE "mkdir"]
    /\ UNCHANGED <<dlpc, run, kind, dirExists, disk, diskAtStart, tries, resp, via,
                   collected, successful_downloads, ioFault, mainVars, exVars, restVars>>

\* os.makedirs of a task that saw no directory: FileExistsError when another
\* task created it in between, which the outer handler turns into False.
TaskMakeDir(i) ==
    /\ tpc[i] = "mkdir"
    /\ IF dirExists
       THEN /\ TaskReturns(i, "makedirs_error")
            /\ UNCHANGED dirExists
       ELSE /\ dirExists' = TRUE
            /\ tpc' = [tpc EXCEPT ![i] = "fetch"]
            /\ UNCHANGED via
    /\ UNCHANGED <<dlpc, run, kind, disk, diskAtStart, tries, resp,
                   collected, successful_downloads, ioFault, mainVars, exVars, restVars>>

\* One pass of the retry loop: requests.get, raise_for_status, and the handler.
TaskFetch(i) ==
    /\ tpc[i] = "fetch"
    /\ \E got \in FetchOutcomes(kind[i]) :
         LET made == tries[i] + 1
         IN  /\ tries' = [tries EXCEPT ![i] = made]
             /\ IF got \in {"data", "empty"}
                THEN /\ resp' = [resp EXCEPT ![i] = got]
                     /\ tpc' = [tpc EXCEPT ![i] = "save"]
                     /\ UNCHANGED via
                ELSE /\ UNCHANGED resp
                     /\ IF RetriesAfter(got, made)
                        THEN UNCHANGED <<tpc, via>>
                        ELSE TaskReturns(i, got)
    /\ UNCHANGED <<dlpc, run, kind, dirExists, disk, diskAtStart,
                   collected, successful_downloads, ioFault, mainVars, exVars, restVars>>

\* Lines 878-896: the existence test, the write and the check of the result.
\* The write may fail before the file is created ("open_fails") or after it
\* was created empty ("write_fails").
TaskSave(i) ==
    /\ tpc[i] = "save"
    /\ IF FileExists(disk[i])
       THEN /\ TaskReturns(i, "exists")
            /\ UNCHANGED <<disk, ioFault>>
       ELSE \E w \in {"ok", "open_fails", "write_fails"} :
              CASE w = "ok" ->
                     /\ disk' = [disk EXCEPT ![i] = resp[i]]
                     /\ TaskReturns(i, IF WrittenOk(resp[i]) THEN "written" ELSE "empty_file")
                     /\ UNCHANGED ioFault
                [] w = "open_fails" ->
                     /\ TaskReturns(i, "io_error")
                     /\ ioFault' = TRUE
                     /\ UNCHANGED disk
                [] OTHER ->
                     /\ disk' = [disk EXCEPT ![i] = "empty"]
                     /\ TaskReturns(i, "io_error")
                     /\ ioFault' = TRUE
    /\ UNCHANGED <<dlpc, run, kind, dirExists, diskAtStart, tries, resp,
                   collected, successful_downloads, mainVars, exVars, restVars>>

\* ------------------------------------------------------- download_all_images
\* The early return on an empty list.
DLReturnEmpty ==
    /\ dlpc = "running"
    /\ Len(kind) = 0
    /\ dlpc' = "returned"
    /\ UNCHANGED <<run, kind, dirExists, disk, diskAtStart, tpc, tries, resp, via,
                   collected, successful_downloads, ioFault, mainVars, exVars, restVars>>

\* The collecting loop takes the result of the next future, in list order.
DLCollect ==
    /\ dlpc = "running"
    /\ collected < Len(kind)
    /\ tpc[collected + 1] = "done"
    /\ collected' = collected + 1
    /\ successful_downloads' =
         CountAfter(successful_downloads, TaskSucceeded(collected + 1))
    /\ UNCHANGED <<dlpc, run, kind, dirExists, disk, diskAtStart, tpc, tries, resp,
                   via, ioFault, mainVars, exVars, restVars>>

\* The executor is shut down and successful_downloads is returned.
DLReturn ==
    /\ dlpc = "running"
    /\ Len(kind) > 0
    /\ collected = Len(kind)
    /\ \A i \in Tasks : tpc[i] = "done"
    /\ dlpc' = "returned"
    /\ UNCHANGED <<run, kind, dirExists, disk, diskAtStart, tpc, tries, resp, via,
                   collected, successful_downloads, ioFault, mainVars, exVars, restVars>>

\* download_all_images is called again with the same list and destination.
DLRunAgain ==
    /\ dlpc = "returned"
    /\ run < MaxRuns
    /\ dlpc' = "running"
    /\ run' = run + 1
    /\ diskAtStart' = disk
    /\ tpc' = [i \in Tasks |-> "queued"]
    /\ tries' = [i \in Tasks |-> 0]
    /\ resp' = [i \in Tasks |-> "none"]
    /\ via' = [i \in Tasks |-> "none"]
    /\ collected' = 0
    /\ successful_downloads' = 0
    /\ ioFault' = FALSE
    /\ UNCHANGED <<kind, dirExists, disk, mainVars, exVars, restVars>>

NextDL ==
    \/ \E i \in Tasks : TaskStart(i)
    \/ \E i \in Tasks : TaskMakeDir(i)
    \/ \E i \in Tasks : TaskFetch(i)
    \/ \E i \in Tasks : TaskSave(i)
    \/ DLReturnEmpty
    \/ DLCollect
    \/ DLReturn
    \/ DLRunAgain

SpecDL == InitDL /\ [][NextDL]_vars

\* ------------------------------------- an interrupt while results are collected
\* main is in its first attempt, inside download_all_images, with every task
\* submitted (lines 928-930).
InitInt ==
    /\ ExIdle
    /\ PipeIdle /\ FnIdle /\ CsvIdle /\ LockIdle
    /\ mpc = "loop"
    /\ retry_attempts \in 1..MaxRetry
    /\ only_csv = FALSE
    /\ max_workers \in 1..MaxWorkers
    /\ attempts = 0
    /\ success = FALSE
    /\ downloaded_count = 0
    /\ calls = 0
    /\ outcomes = <<>>
    /\ exitCode = -1
    /\ interrupted = FALSE
    /\ raised = FALSE
    /\ message = "none"
    /\ scraper = 1
    /\ quit = {}
    /\ ranOn = <<>>
    /\ counted = 0
    /\ dlpc = "running"
    /\ run = 1
    /\ \E n \in 1..MaxUrls : kind \in [1..n -> UrlKinds]
    /\ dirExists \in BOOLEAN
    /\ disk = [i \in Tasks |-> "missing"]
    /\ diskAtStart = disk
    /\ tpc = [i \in Tasks |-> "queued"]
    /\ tries = [i \in Tasks |-> 0]
    /\ resp = [i \in Tasks |-> "none"]
    /\ via = [i \in Tasks |-> "none"]
    /\ collected = 0
    /\ successful_downloads = 0
    /\ ioFault = FALSE

\* Lines 933-934: a KeyboardInterrupt is raised in the main thread while it is
\* in the collecting loop.  Nothing in download_all_images catches it: control
\* leaves the with block, whose exit calls executor.shutdown(wait=True).
DLInterrupt ==
    /\ dlpc = "running"
    /\ mpc = "loop"
    /\ collected < Len(kind)
    /\ dlpc' = "unwinding"
    /\ UNCHANGED <<run, kind, dirExists, disk, diskAtStart, tpc, tries, resp, via,
                   collected, successful_downloads, ioFault, mainVars, exVars, restVars>>

\* The shutdown has joined the workers, which happens when no task is queued
\* or running.  The interrupt then passes the handler of line 1016 (it is not
\* an Exception), the finally clause quits the driver, and the handler of
\* lines 1124-1126 makes main return 1.
DLUnwound ==
    /\ dlpc = "unwinding"
    /\ \A i \in Tasks : tpc[i] = "done"
    /\ dlpc' = "aborted"
    /\ mpc' = "done"
    /\ exitCode' = 1
    /\ interrupted' = TRUE
    /\ message' = "interrupted_by_user"
    /\ quit' = quit \cup {scraper}
    /\ UNCHANGED <<run, kind, dirExists, disk, diskAtStart, tpc, tries, resp, via,
                   collected, successful_downloads, ioFault,
                   retry_attempts, only_csv, max_workers, attempts, success,
                   downloaded_count, calls, outcomes, raised, scraper, ranOn,
                   counted, exVars, restVars>>

NextInt ==
    \/ \E i \in Tasks : TaskStart(i)
    \/ \E i \in Tasks : TaskMakeDir(i)
    \/ \E i \in Tasks : TaskFetch(i)
    \/ \E i \in Tasks : TaskSave(i)
    \/ DLCollect
    \/ DLReturn
    \/ DLInterrupt
    \/ DLUnwound

SpecInt == InitInt /\ [][NextInt]_vars

\* C23: once a user interrupt has arrived in the collecting loop, no task
\* that is still queued is started.
C23_NoTaskStartsAfterInterrupt ==
    [][dlpc = "unwinding" =>
         \A i \in Tasks : tpc[i] = "queued" => tpc'[i] = "queued"]_vars

\* An interrupted call ends only when every task has run to its end, and main
\* then returns 1.
C23_InterruptedRunEndsWithOne ==
    dlpc = "aborted" =>
        /\ \A i \in Tasks : tpc[i] = "done"
        /\ mpc = "done" /\ exitCode = 1 /\ interrupted

\* ---------------------------------------- claims on the downloads (SpecDL)
\* C1 (as claimed): in a second or later run on the same destination, an item
\* whose file existed when the run started keeps its content, has no fetch
\* issued for it, and leaves download_image through the existing-file return
\* (counted as a success).
C1_RerunSkipsFetch ==
    \A i \in Tasks :
        (run >= 2 /\ FileExists(diskAtStart[i])) =>
            /\ disk[i] = diskAtStart[i]
            /\ tries[i] = 0
            /\ (tpc[i] = "done" => via[i] = "exists")

ExactlyOneUnreachable ==
    /\ Cardinality({i \in Tasks : kind[i] = "dead"}) = 1
    /\ \A i \in Tasks : kind[i] \in {"dead", "ok"}

\* C3 (as claimed): with exactly one unreachable URL in a list of N whose
\* other URLs answer with an image, and no file write failing, every task
\* returns (the unreachable one False) and download_all_images returns N-1.
C3_OneUnreachableGivesNMinusOne ==
    (dlpc = "returned" /\ ExactlyOneUnreachable /\ ~ioFault) =>
        /\ \A i \in Tasks : tpc[i] = "done"
        /\ \A i \in Tasks : kind[i] = "dead" => ~TaskSucceeded(i)
        /\ successful_downloads = Len(kind) - 1

\* C32: when every URL answers with an image and no file write fails,
\* download_all_images returns the length of the list, whatever the
\* interleaving of the workers and whether or not the location directory
\* existed when they started.
C32_AllSucceedWhateverTheInterleaving ==
    (dlpc = "returned" /\ ~ioFault /\ \A i \in Tasks : kind[i] = "ok") =>
        /\ \A i \in Tasks : TaskSucceeded(i)
        /\ successful_downloads = Len(kind)

\* C9 (as claimed): in every run, an item is counted as a success only if a
\* non-empty file is at its destination path at that moment.
C9_SuccessOnlyWithNonEmptyFile ==
    \A i \in Tasks : TaskSucceeded(i) => FileExistsNonEmpty(disk[i])

\* C10 (as claimed): a fetch answered with a non-success status is not
\* retried, the item fails after that single request, and no item is fetched
\* more than 3 times.
C10_StatusErrorIsTerminal ==
    \A i \in Tasks :
        /\ tries[i] <= max_retries
        /\ kind[i] = "http" =>
              /\ tries[i] <= 1
              /\ tries[i] = 1 => (tpc[i] = "done" /\ via[i] = "http_error")

\* C11: while download_all_images runs, the number of download tasks in flight
\* (started and not yet returned) never exceeds max_workers, whatever the URL
\* list and however the workers are scheduled.
C11_InFlightAtMostMaxWorkers ==
    Cardinality(InFlight) <= max_workers

C11_Witness ==
    /\ dlpc = "running" /\ Len(kind) > max_workers
    /\ Cardinality(InFlight) = max_workers
    /\ \E i \in Tasks : tpc[i] = "queued"

\* C12: download_all_images returns only when every submitted task has
\* returned, and the count it returns is the number of tasks that returned
\* True, which is at most the length of the URL list; while it collects, the
\* counter never exceeds the number of results consumed.
C12_JoinBarrierAndCount ==
    /\ successful_downloads <= collected /\ collected <= Len(kind)
    /\ dlpc = "returned" =>
          /\ \A i \in Tasks : tpc[i] = "done"
          /\ successful_downloads = Cardinality({i \in Tasks : TaskSucceeded(i)})
          /\ successful_downloads <= Len(kind)

C12_Witness ==
    /\ dlpc = "returned" /\ Len(kind) >= 2
    /\ successful_downloads = 1
    /\ \E i \in Tasks : ~TaskSucceeded(i)

\* ----------------------------------------------------------------- URLs
\* A URL is a sequence of tokens; a decimal digit is one token, "=w" and "-h"
\* are the literal parts of the dimension segment.
Host == "googleusercontent.com"
Digits == {"0", "1", "2", "3", "4", "5", "6", "7", "8", "9"}
PhotoIds == <<"p1", "p2", "p3", "p4">>

\* get_attribute("src") gave None (or the read was given up).
NoSrc == <<>>

\* The src of the i-th photo of the place as the page serves it.
Photo(i) ==
    IF i % 2 = 1
    THEN <<Host, PhotoIds[i], "=w", "4", "0", "-h", "3">>
    ELSE <<Host, PhotoIds[i]>>

\* The first photo served at another size.
Resized == <<Host, PhotoIds[1], "=w", "9", "-h", "9", "9">>

\* An image of another host whose name contains 'googleusercontent'.
Lookalike == <<"googleusercontent.cn", "x", "=w", "4", "0", "-h", "3">>

RawUrls == {Photo(i) : i \in 1..MaxGallery} \cup {Resized, Lookalike}
Srcs == RawUrls \cup {NoSrc}

\* The filter of the page script: img.src.includes('googleusercontent').
JsUrls == {u \in RawUrls : \E j \in 1..Len(u) : u[j] \in {Host, "googleusercontent.cn"}}

\* What the displayed elements of one selector can be: none, one, or one
\* without the asset host followed by another.
ElemLists ==
    {<<>>} \cup {<<a>> : a \in Srcs}
           \cup {<<a, b>> : a \in {NoSrc, Lookalike}, b \in RawUrls \ {Lookalike}}

\* What the page script can return: no URL, one or two.
JsLists == {<<>>} \cup {<<a>> : a \in JsUrls} \cup {<<a, b>> : a \in JsUrls, b \in JsUrls}

\* "googleusercontent.com" in url
HasAssetHostAsTheScript(url) ==
    \E j \in 1..Len(url) : url[j] \in {Host, "googleusercontent.cn"}
HasAssetHost(url) == \E j \in 1..Len(url) : url[j] = Host

\* Length of the run of digits of s that starts at position j.
RECURSIVE DigitRun(_, _)
DigitRun(s, j) ==
    IF j <= Len(s) /\ s[j] \in Digits THEN 1 + DigitRun(s, j + 1) ELSE 0

\* Length of the match of =w\d+-h\d+ at position j of s, 0 if there is none.
MatchLen(s, j) ==
    IF j <= Len(s) /\ s[j] = "=w" /\ DigitRun(s, j + 1) >= 1
    THEN LET d1 == DigitRun(s, j + 1)
             k == j + 1 + d1
         IN  IF k <= Len(s) /\ s[k] = "-h" /\ DigitRun(s, k + 1) >= 1
             THEN 2 + d1 + DigitRun(s, k + 1)
             ELSE 0
    ELSE 0

\* re.sub(r'=w\d+-h\d+', '=w0-h0', s) from position j on.
RECURSIVE SubFrom(_, _)
SubFrom(s, j) ==
    IF j > Len(s) THEN <<>>
    ELSE IF MatchLen(s, j) > 0
         THEN <<"=w", "0", "-h", "0">> \o SubFrom(s, j + MatchLen(s, j))
         ELSE <<s[j]>> \o SubFrom(s, j + 1)

\* high_res_url = re.sub(r'=w\d+-h\d+', '=w0-h0', url)
HighResIdentity(url) == url
HighRes(url) == SubFrom(url, 1)

\* HighRes on the URLs of the model, computed once.
HighResOf == [u \in RawUrls |-> HighRes(u)]

\* list(a_set): the elements in some order.
Orders(S) == {f \in [1..Cardinality(S) -> S] : \A a, b \in 1..Cardinality(S) : f[a] = f[b] => a = b}

\* ------------------------------------------------------- extract_image_urls
NumImgSelectors == 6
max_consecutive_errors == 5
max_scroll_attempts == 30

\* The src the inner loop over one selector's displayed elements stops at:
\* the first one that has the asset host (the others are skipped).
FirstAsset(elems) ==
    LET hits == {j \in 1..Len(elems) : HasAssetHost(elems[j])}
    IN  IF hits = {} THEN NoSrc
        ELSE elems[CHOOSE j \in hits : \A h \in hits : j <= h]

\* The srcs the read of one selector can stop at, over all the lists of
\* displayed elements.
SelectorReads == {FirstAsset(elems) : elems \in ElemLists}

\* url_index after a URL with the asset host was read.
UrlIndexAfterEveryRead(idx, isNew, csv) == IF csv THEN idx + 1 ELSE idx
UrlIndexAfter(idx, isNew, csv) == IF isNew /\ csv THEN idx + 1 ELSE idx

\* save_url_to_csv: the row is appended unless the write fails.
SaveUrlToCsv(rows, url, index, ok) ==
    IF ok THEN Append(rows, <<index, url>>) ELSE rows

\* Lines 596-608 on the extraction context c = [urls, idx, rows, failed, seen].
AddUrlUnlessAppendFails(c, raw, csv, ok) ==
    LET hr == HighResOf[raw]
        isNew == hr \notin c.urls
    IN  [urls |-> IF isNew /\ csv /\ ~ok THEN c.urls ELSE c.urls \cup {hr},
         idx |-> IF isNew /\ csv THEN c.idx + 1 ELSE c.idx,
         rows |-> IF isNew /\ csv /\ ok THEN Append(c.rows, <<c.idx, hr>>) ELSE c.rows,
         failed |-> IF isNew /\ csv /\ ~ok THEN c.failed \cup {c.idx} ELSE c.failed,
         seen |-> IF isNew /\ csv THEN Append(c.seen, hr) ELSE c.seen]
AddUrl(c, raw, csv, ok) ==
    LET hr == HighResOf[raw]
        isNew == hr \notin c.urls
    IN  [urls |-> c.urls \cup {hr},
         idx |-> UrlIndexAfter(c.idx, isNew, csv),
         rows |-> IF isNew /\ csv THEN SaveUrlToCsv(c.rows, hr, c.idx, ok) ELSE c.rows,
         failed |-> IF isNew /\ csv /\ ~ok THEN c.failed \cup {c.idx} ELSE c.failed,
         seen |-> IF isNew /\ csv THEN Append(c.seen, hr) ELSE c.seen]

\* Lines 627-641: every URL of the script's list that has the asset host.
RECURSIVE AddAll(_, _, _, _)
AddAll(c, list, csv, oks) ==
    IF list = <<>> THEN c
    ELSE LET c1 == IF HasAssetHost(Head(list))
                   THEN AddUrl(c, Head(list), csv, Head(oks))
                   ELSE c
         IN  AddAll(c1, Tail(list), csv, Tail(oks))

Context ==
    [urls |-> image_urls, idx |-> url_index, rows |-> ledger, failed |-> failedIdx,
     seen |-> discovered]

SetContext(c) ==
    /\ image_urls' = c.urls
    /\ url_index' = c.idx
    /\ ledger' = c.rows
    /\ failedIdx' = c.failed
    /\ discovered' = c.seen

\* The test of line 648.
ErrorBudgetSpentOffByOne(ce) == ce > max_consecutive_errors
ErrorBudgetSpent(ce) == ce >= max_consecutive_errors

\* The test of line 653.
MaxImagesReachedNoneIsZero(cap, n) == n >= cap
MaxImagesReached(cap, n) == cap # 0 /\ n >= cap

\* Lines 721-724.
StagnationNeverCounts(sa, n, last) == 0
StagnationNeverResets(sa, n, last) == sa + 1
StagnationAfter(sa, n, last) == IF n = last THEN sa + 1 ELSE 0

InitEx ==
    /\ DLIdle
    /\ MainIdle
    /\ PipeIdle /\ FnIdle /\ CsvIdle /\ LockIdle
    /\ max_workers = 0
    /\ epc = "start"
    /\ mode = "none"
    /\ save_csv \in BOOLEAN
    /\ max_images \in 0..MaxCap
    /\ image_urls = {}
    /\ last_count = 0
    /\ scroll_attempts = 0
    /\ consecutive_errors = 0
    /\ url_index = 1
    /\ found_image = FALSE
    /\ sel = 1
    /\ ledger = <<>>
    /\ failedIdx = {}
    /\ exitReason = "none"
    /\ returned = <<>>
    /\ pos = 1
    /\ clean = TRUE
    /\ discovered = <<>>
    /\ missed = 0
    /\ grew = FALSE
    /\ stalled = 0

\* Lines 420-541: the ledger is created when save_csv is set (the creation may
\* raise), then the gallery is entered or, failing that, the direct scan runs.
ExtractStart ==
    /\ epc = "start"
    /\ \E csvOk, inGallery \in BOOLEAN :
         IF save_csv /\ ~csvOk
         THEN /\ epc' = "raised"
              /\ UNCHANGED <<mode, pos, clean>>
         ELSE IF inGallery
              THEN /\ epc' = "read"
                   /\ mode' = "gallery"
                   /\ UNCHANGED <<pos, clean>>
              ELSE /\ epc' = "direct"
                   /\ mode' = "direct"
                   /\ pos' = 0
                   /\ clean' = FALSE
    /\ UNCHANGED <<save_csv, max_images, image_urls, last_count, scroll_attempts,
                   consecutive_errors, url_index, found_image, sel, ledger,
                   failedIdx, exitReason, returned, discovered,
                   missed, grew, stalled, mainVars, dlVars, restVars>>

\* -------------------------------------------------- _extract_images_direct
\* The count below which the CSS selectors supplement the script's result.
DirectMin == 5

\* The URLs _extract_images_direct adds to its set, in the order it adds them.
DirectDiscovery(jsOk, js, extra) ==
    LET fromJs == {HighResOf[js[j]] : j \in {h \in 1..Len(js) : HasAssetHost(js[h])}}
        reads == IF ~jsOk THEN <<>>
                 ELSE IF Cardinality(fromJs) < DirectMin THEN js \o extra
                 ELSE js
        start == [urls |-> {}, idx |-> 1, rows |-> <<>>, failed |-> {}, seen |-> <<>>]
    IN  AddAll(start, reads, TRUE, [i \in 1..Len(reads) |-> TRUE]).seen

\* The set _extract_images_direct collects (it is called without a csv_path):
\* the script's list, then the displayed elements of the CSS selectors.
ExtractImagesDirect(jsOk, js, extra) ==
    LET fromJs == {HighResOf[js[j]] : j \in {h \in 1..Len(js) : HasAssetHost(js[h])}}
        fromSel == {HighResOf[extra[j]] : j \in {h \in 1..Len(extra) : HasAssetHost(extra[h])}}
    IN  IF ~jsOk THEN {}
        ELSE IF Cardinality(fromJs) < DirectMin THEN fromJs \cup fromSel
        ELSE fromJs

\* Lines 535-537: enumerate(direct_urls) with index i+1 for the i-th URL
\* (positions are counted from 1 here).
RECURSIVE DirectRows(_, _, _, _)
DirectRows(order, i, fails, rows) ==
    IF i > Len(order) THEN rows
    ELSE DirectRows(order, i + 1, fails, SaveUrlToCsv(rows, order[i], i, i \notin fails))

\* Lines 530-539: the direct scan fallback and its ledger rows.
DirectScan ==
    /\ epc = "direct"
    /\ \E jsOk \in BOOLEAN, js \in JsLists, extra \in ElemLists :
         LET found == ExtractImagesDirect(jsOk, js, extra)
         IN  \E order \in Orders(found),
                fails \in (IF save_csv THEN SUBSET (1..Cardinality(found)) ELSE {{}}) :
               /\ image_urls' = found
               /\ returned' = order
               /\ ledger' = IF save_csv THEN DirectRows(order, 1, fails, <<>>) ELSE <<>>
               /\ failedIdx' = fails
               /\ discovered' = IF save_csv THEN DirectDiscovery(jsOk, js, extra) ELSE <<>>
    /\ exitReason' = "direct"
    /\ epc' = "returned"
    /\ UNCHANGED <<mode, save_csv, max_images, last_count, scroll_attempts,
                   consecutive_errors, url_index, found_image, sel, pos,
                   clean, missed, grew, stalled, mainVars, dlVars, restVars>>

\* ------------------------------------------------------- the gallery loop
\* Lines 561-615 for one entry of img_selectors: the displayed elements the
\* selector locates have the srcs elems (none when the wait times out; a read
\* given up after stale references or an exception counts as NoSrc).
ReadSelector ==
    /\ epc = "read"
    /\ sel <= NumImgSelectors
    /\ \E src \in SelectorReads :
         LET appends == src # NoSrc /\ save_csv /\ HighResOf[src] \notin image_urls
             plain == clean /\ (src = NoSrc \/ src = Photo(pos))
         IN  \E ok \in (IF appends THEN BOOLEAN ELSE {TRUE}) :
               /\ IF src # NoSrc
                  THEN /\ SetContext(AddUrl(Context, src, save_csv, ok))
                       /\ found_image' = TRUE
                       /\ consecutive_errors' = 0
                       /\ missed' = 0
                       /\ grew' = (grew \/ HighResOf[src] \notin image_urls)
                  ELSE UNCHANGED <<image_urls, url_index, ledger, failedIdx,
                                   discovered, found_image, consecutive_errors,
                                   missed, grew>>
               /\ clean' = plain
               /\ pos' = IF plain THEN pos ELSE 0
    /\ sel' = sel + 1
    /\ UNCHANGED <<epc, mode, save_csv, max_images, last_count, scroll_attempts,
                   exitReason, returned, stalled, mainVars, dlVars, restVars>>

\* The j-th URL of the script's list is new when it is reached, so that a
\* ledger row is attempted for it (the outcome of an append matters only then).
ScriptAppends(urls, js, j) ==
    /\ HasAssetHost(js[j])
    /\ HighResOf[js[j]] \notin urls
    /\ \A i \in 1..(j - 1) :
         ~(HasAssetHost(js[i]) /\ HighResOf[js[i]] = HighResOf[js[j]])

\* The loop is left through one of its breaks.
LoopBreak(reason) ==
    /\ epc' = "exited"
    /\ exitReason' = reason
    /\ UNCHANGED <<sel, found_image, last_count, scroll_attempts, stalled>>

\* Lines 617-731, after the last selector: the script fallback when no image
\* was found, the error budget, the max_images test, the click on a next
\* control (clicked says whether one could be engaged) and the stagnation test.
StepFinish ==
    /\ epc = "read"
    /\ sel = NumImgSelectors + 1
    /\ \E clicked \in BOOLEAN,
          jsOk \in (IF found_image THEN {TRUE} ELSE BOOLEAN) :
       \E js \in (IF found_image \/ ~jsOk THEN {<<>>} ELSE JsLists) :
       \E oks \in {f \in [1..Len(js) -> (IF save_csv THEN BOOLEAN ELSE {TRUE})] :
                      \A j \in 1..Len(js) : ScriptAppends(image_urls, js, j) \/ f[j]} :
         LET scripted == ~found_image /\ jsOk
             c == IF scripted THEN AddAll(Context, js, save_csv, oks) ELSE Context
             found == found_image \/ (scripted /\ \E j \in 1..Len(js) : HasAssetHost(js[j]))
             errors == IF found THEN (IF found_image THEN consecutive_errors ELSE 0)
                       ELSE consecutive_errors + 1
             n == Cardinality(c.urls)
             stagnation == StagnationAfter(scroll_attempts, n, last_count)
             plainRead == clean /\ found_image
             plain == plainRead /\ (clicked => pos < MaxGallery)
             added == grew \/ c.urls # image_urls
             advances == IF added THEN 0
                         ELSE IF stalled < max_scroll_attempts THEN stalled + 1
                         ELSE stalled
         IN  /\ SetContext(c)
             /\ consecutive_errors' = errors
             /\ missed' = IF found THEN 0 ELSE missed + 1
             /\ IF ~found /\ ErrorBudgetSpent(errors)
                THEN /\ LoopBreak("error_budget")
                     /\ grew' = added
                     /\ clean' = plainRead
                     /\ pos' = IF plainRead THEN pos ELSE 0
                ELSE IF MaxImagesReached(max_images, n)
                THEN /\ LoopBreak("max_images")
                     /\ grew' = added
                     /\ clean' = plainRead
                     /\ pos' = IF plainRead THEN pos ELSE 0
                ELSE /\ clean' = plain
                     /\ pos' = IF plain /\ clicked THEN pos + 1 ELSE IF plain THEN pos ELSE 0
                     /\ IF ~clicked
                        THEN LoopBreak("no_next") /\ grew' = added
                        ELSE IF stagnation >= max_scroll_attempts
                        THEN /\ epc' = "exited"
                             /\ exitReason' = "stagnation"
                             /\ scroll_attempts' = stagnation
                             /\ last_count' = n
                             /\ stalled' = advances
                             /\ grew' = FALSE
                             /\ UNCHANGED <<sel, found_image>>
                        ELSE /\ scroll_attempts' = stagnation
                             /\ last_count' = n
                             /\ stalled' = advances
                             /\ grew' = FALSE
                             /\ sel' = 1
                             /\ found_image' = FALSE
                             /\ UNCHANGED <<epc, exitReason>>
    /\ UNCHANGED <<mode, save_csv, max_images, returned, mainVars, dlVars, restVars>>

\* Lines 748-753: the set is returned as a list.
GalleryReturn ==
    /\ epc = "exited"
    /\ \E order \in Orders(image_urls) : returned' = order
    /\ epc' = "returned"
    /\ UNCHANGED <<mode, save_csv, max_images, image_urls, last_count,
                   scroll_attempts, consecutive_errors, url_index, found_image,
                   sel, ledger, failedIdx, exitReason, pos, clean, discovered,
                   missed, grew, stalled, mainVars, dlVars, restVars>>

NextEx == ExtractStart \/ DirectScan \/ ReadSelector \/ StepFinish \/ GalleryReturn

SpecEx == InitEx /\ [][NextEx]_vars

\* A sequential program keeps executing while it has a next statement.
SpecExFair == SpecEx /\ WF_vars(NextEx)

\* ------------------------------------- claims on the extraction (SpecEx)
\* C2 (as claimed): when a run with the ledger enabled has returned, the index
\* column of its rows is exactly 1..N, N the number of URLs it returned.
C2_IndicesExactlyOneToN ==
    (epc = "returned" /\ save_csv) =>
        [i \in 1..Len(ledger) |-> ledger[i][1]] = [i \in 1..Len(returned) |-> i]

\* C2 (amended): with the ledger enabled, in gallery mode and in the direct
\* scan fallback, the index column of the rows is strictly increasing and
\* holds exactly the numbers of 1..N whose append did not fail, N being the
\* number of unique URLs found (the length of the returned list); so it is
\* exactly 1..N when no append failed.
C2_IndicesOneToNButFailedAppends ==
    save_csv =>
        LET N == Cardinality(image_urls)
        IN  /\ \A i \in 1..(Len(ledger) - 1) : ledger[i][1] < ledger[i + 1][1]
            /\ {ledger[i][1] : i \in 1..Len(ledger)} = (1..N) \ failedIdx
            /\ failedIdx \subseteq 1..N
            /\ epc = "returned" => Len(returned) = N

C2_Witness ==
    /\ epc = "returned" /\ save_csv /\ mode = "gallery"
    /\ Len(returned) >= 2 /\ failedIdx = {1} /\ Len(ledger) >= 1

\* C4: when the surface behaved as a plain gallery (each step reads the
\* displayed photo, Photo(1), Photo(2), ... in turn, and the next control
\* works until it is absent on photo number pos) and no max_images cap of pos
\* or less is set, the loop leaves through the 'no next control' break and
\* returns exactly the pos URLs of those photos, each once.
C4_PlainGalleryEndsAtNoNext ==
    (epc \in {"exited", "returned"} /\ mode = "gallery" /\ clean
       /\ (max_images = 0 \/ max_images > pos)) =>
        /\ exitReason = "no_next"
        /\ image_urls = {HighResOf[Photo(i)] : i \in 1..pos}
        /\ Cardinality(image_urls) = pos
        /\ epc = "returned" =>
              /\ Len(returned) = pos
              /\ {returned[i] : i \in 1..pos} = image_urls

C4_Witness ==
    /\ epc = "returned" /\ mode = "gallery" /\ clean /\ max_images = 0
    /\ pos = MaxGallery /\ exitReason = "no_next" /\ Len(returned) = MaxGallery

\* C8: the gallery loop always terminates: whatever the surface shows at each
\* step (new photos, the same photos for ever, nothing) and however long the
\* next control keeps working, a run that entered the loop leaves it through
\* the max_images, next-control-absent, stagnation or error-budget break.
C8_GalleryLoopTerminates ==
    (epc = "read") ~>
        (epc \in {"exited", "returned"}
           /\ exitReason \in {"max_images", "no_next", "stagnation", "error_budget"})

C8_Witness ==
    /\ epc = "returned" /\ exitReason = "stagnation"
    /\ scroll_attempts = max_scroll_attempts /\ image_urls # {}

\* C18 (as claimed): with the ledger enabled and no append failing, the URL
\* column of the rows is the sequence of unique discovered URLs, one row each
\* in discovery order: at every moment of the gallery loop, and once the
\* direct scan has returned.
C18_OneRowPerUrlInDiscoveryOrder ==
    (save_csv /\ failedIdx = {} /\ (mode = "gallery" \/ epc = "returned")) =>
        [i \in 1..Len(ledger) |-> ledger[i][2]] = discovered

\* C19 (as claimed): with a maximum image count M, extract_image_urls never
\* returns more than M URLs, in gallery mode and in the direct scan.
C19_ReturnsAtMostMaxImages ==
    (epc = "returned" /\ max_images # 0) => Len(returned) <= max_images

\* C31: when a run with the ledger enabled has returned and no append has
\* failed, every ledger row <<i, url>> names the URL at position i of the
\* returned list, which is the URL download_all_images fetches into the file
\* <location>_<i><ext>.
C31_FileIndexIsLedgerIndex ==
    (epc = "returned" /\ save_csv /\ failedIdx = {}) =>
        \A k \in 1..Len(ledger) :
            /\ ledger[k][1] \in 1..Len(returned)
            /\ returned[ledger[k][1]] = ledger[k][2]

\* The list a gallery run returned holds each discovered URL once.
ReturnedAll ==
    /\ Len(returned) = Cardinality(image_urls)
    /\ {returned[k] : k \in 1..Len(returned)} = image_urls

\* C24: in the gallery loop consecutive_errors is the number of steps ended
\* in a row without an image being found (it is 0 as soon as a step has found
\* one, new or duplicate); it never exceeds max_consecutive_errors; the loop
\* is left through the error-budget break exactly when it reaches that
\* number; and the run then returns every URL discovered before.
C24_ErrorBudget ==
    mode = "gallery" =>
        /\ consecutive_errors = missed
        /\ consecutive_errors \in 0..max_consecutive_errors
        /\ found_image => consecutive_errors = 0
        /\ consecutive_errors = max_consecutive_errors
             <=> (epc \in {"exited", "returned"} /\ exitReason = "error_budget")
        /\ (epc = "returned" /\ exitReason = "error_budget") => ReturnedAll

C24_Witness ==
    /\ epc = "returned" /\ exitReason = "error_budget" /\ missed = 5
    /\ Len(returned) = 2

\* C25: in the gallery loop scroll_attempts is the number of advances made
\* since the last advance that followed the addition of a URL (an advance
\* after which the count has grown puts it back to 0); it never exceeds
\* max_scroll_attempts, and the loop is left through the stagnation break
\* exactly when it reaches that number.
C25_Stagnation ==
    mode = "gallery" =>
        /\ scroll_attempts = stalled
        /\ grew <=> Cardinality(image_urls) > last_count
        /\ scroll_attempts \in 0..max_scroll_attempts
        /\ scroll_attempts = max_scroll_attempts
             <=> (epc \in {"exited", "returned"} /\ exitReason = "stagnation")

C25_Witness ==
    /\ epc = "returned" /\ exitReason = "stagnation" /\ stalled = 30
    /\ Len(returned) = 2 /\ missed = 0

\* C27: a failed append to the ledger never ends the extraction with an
\* exception; the URL whose append failed stays in the discovered set and is
\* in the returned list, and the run returns every URL it discovered.
C27_FailedAppendAbsorbed ==
    (save_csv /\ failedIdx # {}) =>
        /\ epc # "raised"
        /\ mode = "gallery" =>
              \A i \in failedIdx : i <= Len(discovered) /\ discovered[i] \in image_urls
        /\ epc = "returned" => ReturnedAll

\* u names the asset host and each of its dimension segments is =w0-h0.
AssetUrlInNormalForm(u) ==
    /\ \E j \in 1..Len(u) : u[j] = Host
    /\ \A j \in 1..Len(u) :
         MatchLen(u, j) > 0 => SubSeq(u, j, j + MatchLen(u, j) - 1) = <<"=w", "0", "-h", "0">>

\* The URLs of the model, as served or rewritten, that pass that test.
NormalAssetUrls ==
    {u \in RawUrls \cup {HighRes(r) : r \in RawUrls} : AssetUrlInNormalForm(u)}

\* C36: in the gallery loop and in the direct scan alike, every URL of the
\* set, every URL of the returned list and every URL of a ledger row names
\* the asset host and is in normal form, and the returned list holds no URL
\* twice.
C36_OnlyNormalizedAssetUrls ==
    /\ image_urls \subseteq NormalAssetUrls
    /\ \A k \in 1..Len(ledger) : ledger[k][2] \in NormalAssetUrls
    /\ \A k \in 1..Len(returned) : returned[k] \in NormalAssetUrls
    /\ \A j, k \in 1..Len(returned) : returned[j] = returned[k] => j = k

C36_Witness ==
    /\ epc = "returned" /\ save_csv /\ Len(returned) = 2 /\ Len(ledger) = 2
    /\ \E k \in 1..2 : \E j \in 1..Len(returned[k]) : returned[k][j] = "=w"
    /\ \E k \in 1..2 : \A j \in 1..Len(returned[k]) : returned[k][j] # "=w"

\* A first append failed and a later URL was appended all the same.
C27_Witness ==
    /\ epc = "returned" /\ mode = "gallery" /\ save_csv /\ failedIdx = {1}
    /\ Len(returned) = 2 /\ Len(ledger) = 1 /\ ledger[1][1] = 2
    /\ ledger[1][2] = discovered[2]

\* ------------------------------------------------- scrape_location_images
\* The pipeline of one attempt, stage by stage.  extract_image_urls is taken
\* here by what it hands over (the mode it ran in and the list it returned);
\* its loop is the subject of SpecEx.  The download stage is the task system
\* of SpecDL.
StageNames == <<"search", "photos", "extract", "download">>

\* Lines 986-1012: the stage entered after a stage that ended well or badly.
StageAfterIgnoringFailure(stage, ok) ==
    CASE stage = "search" -> "photos"
      [] stage = "photos" -> "extract"
      [] stage = "extract" -> "download"
      [] OTHER -> "closed"
StageAfter(stage, ok) ==
    IF ~ok THEN "closed"
    ELSE CASE stage = "search" -> "photos"
           [] stage = "photos" -> "extract"
           [] stage = "extract" -> "download"
           [] OTHER -> "closed"

InitPipe ==
    /\ MainIdle
    /\ DLIdle
    /\ FnIdle /\ CsvIdle /\ LockIdle
    /\ max_workers \in 0..MaxWorkers
    /\ ppc = "search"
    /\ stages = <<>>
    /\ result = <<>>
    /\ epc = "idle"
    /\ mode = "none"
    /\ save_csv \in BOOLEAN
    /\ max_images = 0
    /\ image_urls = {}
    /\ last_count = 0
    /\ scroll_attempts = 0
    /\ consecutive_errors = 0
    /\ url_index = 1
    /\ found_image = FALSE
    /\ sel = 1
    /\ ledger = <<>>
    /\ failedIdx = {}
    /\ exitReason = "none"
    /\ returned = <<>>
    /\ pos = 0
    /\ clean = FALSE
    /\ discovered = <<>>
    /\ missed = 0
    /\ grew = FALSE
    /\ stalled = 0

\* Lines 986-988: search_location, which turns its own exceptions into False.
PipeSearch ==
    /\ ppc = "search"
    /\ \E ok \in BOOLEAN :
         LET nxt == StageAfter("search", ok)
         IN  /\ stages' = Append(stages, <<"search", IF ok THEN "ok" ELSE "failed">>)
             /\ ppc' = nxt
             /\ result' = IF nxt = "closed"
                          THEN ScrapeLocationImages(FALSE, ok, FALSE, 0, max_workers, 0)
                          ELSE result
    /\ UNCHANGED <<mainVars, dlVars, exVars, fnVars, csvVars, lockVars>>

\* Lines 993-996: open_photos_section, which also returns False on exceptions.
PipePhotos ==
    /\ ppc = "photos"
    /\ \E ok \in BOOLEAN :
         LET nxt == StageAfter("photos", ok)
         IN  /\ stages' = Append(stages, <<"photos", IF ok THEN "ok" ELSE "failed">>)
             /\ ppc' = nxt
             /\ result' = IF nxt = "closed"
                          THEN ScrapeLocationImages(FALSE, TRUE, ok, 0, max_workers, 0)
                          ELSE result
    /\ UNCHANGED <<mainVars, dlVars, exVars, fnVars, csvVars, lockVars>>

\* Lines 998-1009 (and 1016-1018 when the ledger cannot be created): the call
\* of extract_image_urls, which runs in gallery mode or as the direct scan and
\* returns n URLs, then the two early returns.
PipeExtract ==
    /\ ppc = "extract"
    /\ \E csvOk, inGallery \in BOOLEAN, n \in 0..MaxFound :
         IF save_csv /\ ~csvOk
         THEN /\ epc' = "raised"
              /\ stages' = Append(stages, <<"extract", "raised">>)
              /\ ppc' = "closed"
              /\ result' = ScrapeLocationImages(TRUE, TRUE, TRUE, 0, max_workers, 0)
              /\ UNCHANGED <<mode, image_urls, returned>>
         ELSE LET nxt == IF max_workers = 0 THEN "closed" ELSE StageAfter("extract", n > 0)
              IN  /\ epc' = "returned"
                  /\ mode' = IF inGallery THEN "gallery" ELSE "direct"
                  /\ returned' = [i \in 1..n |-> HighResOf[Photo(i)]]
                  /\ image_urls' = {HighResOf[Photo(i)] : i \in 1..n}
                  /\ stages' = Append(stages, <<"extract", IF n > 0 THEN "ok" ELSE "empty">>)
                  /\ ppc' = nxt
                  /\ result' = IF nxt = "closed"
                               THEN ScrapeLocationImages(FALSE, TRUE, TRUE, n, max_workers, 0)
                               ELSE result
    /\ UNCHANGED <<save_csv, max_images, last_count, scroll_attempts,
                   consecutive_errors, url_index, found_image, sel, ledger,
                   failedIdx, exitReason, pos, clean, discovered,
                   missed, grew, stalled, mainVars, dlVars, fnVars, csvVars, lockVars>>

\* Lines 1012 and 921-930: download_all_images is called with the returned
\* list and submits one task per URL.  The location directory exists when
\* create_csv_file made it, and may exist from an earlier run.  The pool may
\* fail to start (no thread can be created), which the handler of line 1016
\* turns into (False, 0).
PipeDownloadStart ==
    /\ ppc = "download"
    /\ dlpc = "idle"
    /\ \E poolOk \in BOOLEAN :
         IF poolOk
         THEN /\ stages' = Append(stages, <<"download", "started">>)
              /\ dlpc' = "running"
              /\ run' = 1
              /\ kind' \in [1..Len(returned) -> UrlKinds]
              /\ \E existed \in BOOLEAN : dirExists' = (save_csv \/ existed)
              /\ disk' = [i \in 1..Len(returned) |-> "missing"]
              /\ diskAtStart' = disk'
              /\ tpc' = [i \in 1..Len(returned) |-> "queued"]
              /\ tries' = [i \in 1..Len(returned) |-> 0]
              /\ resp' = [i \in 1..Len(returned) |-> "none"]
              /\ via' = [i \in 1..Len(returned) |-> "none"]
              /\ UNCHANGED <<ppc, result>>
         ELSE /\ stages' = Append(stages, <<"download", "raised">>)
              /\ ppc' = "closed"
              /\ result' = ScrapeLocationImages(TRUE, TRUE, TRUE, Len(returned),
                                                max_workers, 0)
              /\ UNCHANGED <<dlpc, run, kind, dirExists, disk, diskAtStart, tpc,
                             tries, resp, via>>
    /\ UNCHANGED <<collected, successful_downloads, ioFault,
                   mainVars, exVars, fnVars, csvVars, lockVars>>

\* Lines 1012-1014 and 1019-1021: the count is returned and the browser closed.
PipeReturn ==
    /\ ppc = "download"
    /\ dlpc = "returned"
    /\ ppc' = "closed"
    /\ result' = ScrapeLocationImages(FALSE, TRUE, TRUE, Len(returned), max_workers,
                                      successful_downloads)
    /\ UNCHANGED <<stages, mainVars, dlVars, exVars, fnVars, csvVars, lockVars>>

NextPipe ==
    \/ PipeSearch
    \/ PipePhotos
    \/ PipeExtract
    \/ PipeDownloadStart
    \/ \E i \in Tasks : TaskStart(i)
    \/ \E i \in Tasks : TaskMakeDir(i)
    \/ \E i \in Tasks : TaskFetch(i)
    \/ \E i \in Tasks : TaskSave(i)
    \/ DLCollect
    \/ DLReturn
    \/ PipeReturn

SpecPipe == InitPipe /\ [][NextPipe]_vars

\* ------------------------------------- claims on the pipeline (SpecPipe)
StageEnded(name, how) == \E k \in 1..Len(stages) : stages[k] = <<name, how>>

\* C13 (as claimed): when the photos section could not be opened, or the
\* gallery view could not be entered, the attempt ran the direct scan and
\* returned success with the direct scan's results.
C13_GalleryUnavailableFallsBack ==
    (ppc = "closed" /\ (StageEnded("photos", "failed") \/ mode = "direct")) =>
        /\ mode = "direct"
        /\ epc = "returned"
        /\ result[1] = TRUE

\* C20: the stages start in the order search, photos, extract, download, each
\* at most once and only after the one before it ended well; a failed search
\* or photos-opening ends the call with (False, 0) after that single try; and
\* download tasks exist only once extract_image_urls has returned, one per
\* returned URL.
C20_StagesInOrder ==
    /\ Len(stages) <= Len(StageNames)
    /\ \A k \in 1..Len(stages) : stages[k][1] = StageNames[k]
    /\ \A k \in 2..Len(stages) : stages[k - 1][2] = "ok"
    /\ \A k \in 1..Len(stages) :
         (stages[k][1] \in {"search", "photos"} /\ stages[k][2] = "failed") =>
             (k = Len(stages) /\ ppc = "closed" /\ result = <<FALSE, 0>>)
    /\ (dlpc # "idle" \/ Len(kind) > 0) =>
         /\ epc = "returned"
         /\ StageEnded("extract", "ok")
         /\ Len(kind) = Len(returned)
         /\ Len(returned) > 0

C20_Witness ==
    /\ ppc = "closed" /\ Len(stages) = 4 /\ result[1] = TRUE
    /\ Len(returned) >= 2 /\ result[2] = 1

C29_EveryFailureIsAnOutcome ==
    ppc = "closed" =>
        /\ Len(result) = 2 /\ result[1] \in BOOLEAN /\ result[2] \in 0..MaxFound
        /\ (\E k \in 1..Len(stages) : stages[k][2] \in {"failed", "raised"})
             <=> result = <<FALSE, 0>>
        /\ epc = "raised" => result = <<FALSE, 0>>

C29_Witness ==
    /\ ppc = "closed" /\ StageEnded("extract", "raised") /\ epc = "raised"
    /\ result = <<FALSE, 0>>

\* ------------------------------------------------- the dimension rewrite
\* URLs put to re.sub(r'=w\d+-h\d+', '=w0-h0', url): a pair built around one
\* dimension segment whose digits differ, or a single arbitrary token string.
NormTokens == {"=w", "-h", "7", "x"}
DigitRuns == {<<"0">>, <<"7">>, <<"4", "0">>}
MaxAffix == 1
MaxTok == 4

TokSeqs(n) == UNION {[1..k -> NormTokens] : k \in 0..n}

\* s holds a match of =w\d+-h\d+ somewhere.
HasSegment(s) ==
    \E j \in 1..Len(s), a \in 1..Len(s), b \in 1..Len(s) :
        /\ j + a + 1 + b <= Len(s)
        /\ s[j] = "=w"
        /\ \A k \in (j + 1)..(j + a) : s[k] \in Digits
        /\ s[j + a + 1] = "-h"
        /\ \A k \in (j + a + 2)..(j + a + 1 + b) : s[k] \in Digits

InitNorm ==
    /\ MainIdle /\ max_workers = 0
    /\ DLIdle /\ ExIdle /\ PipeIdle /\ CsvIdle /\ LockIdle
    /\ fpc = "input"
    /\ fres = <<>>
    /\ \/ \E pre, post \in TokSeqs(MaxAffix), d1, d2, e1, e2 \in DigitRuns :
            farg = [pair |-> TRUE,
                    u |-> pre \o <<"=w">> \o d1 \o <<"-h">> \o d2 \o post,
                    v |-> pre \o <<"=w">> \o e1 \o <<"-h">> \o e2 \o post]
       \/ \E w \in TokSeqs(MaxTok) : farg = [pair |-> FALSE, u |-> w, v |-> w]

\* high_res_url = re.sub(...) on each input.
NormApply ==
    /\ fpc = "input"
    /\ fpc' = "applied"
    /\ fres' = <<HighRes(farg.u), HighRes(farg.v)>>
    /\ UNCHANGED <<farg, mainVars, dlVars, exVars, pipeVars, csvVars, lockVars>>

\* The rewrite applied to its own results (a normalized URL met again).
NormAgain ==
    /\ fpc = "applied"
    /\ fpc' = "reapplied"
    /\ fres' = fres \o <<HighRes(fres[1]), HighRes(fres[2])>>
    /\ UNCHANGED <<farg, mainVars, dlVars, exVars, pipeVars, csvVars, lockVars>>

NextNorm == NormApply \/ NormAgain

SpecNorm == InitNorm /\ [][NextNorm]_vars

\* C14: the rewrite of every '=w<digits>-h<digits>' segment to '=w0-h0' is
\* idempotent, gives two URLs that differ only in the digits of such a segment
\* the same key, and returns a URL that has no such segment unchanged.
C14_NormalizationLaws ==
    fpc \in {"applied", "reapplied"} =>
        /\ farg.pair => fres[1] = fres[2]
        /\ ~HasSegment(farg.u) => fres[1] = farg.u
        /\ ~HasSegment(fres[1])
             \/ \E j \in 1..Len(fres[1]) : SubSeq(fres[1], j, j + 3) = <<"=w", "0", "-h", "0">>
        /\ fpc = "reapplied" => (fres[3] = fres[1] /\ fres[4] = fres[2])

C14_Witness ==
    /\ fpc = "reapplied" /\ farg.pair /\ farg.u # farg.v
    /\ Len(farg.u) # Len(farg.v)
    /\ fres[1] # farg.u /\ fres[1] = fres[2] /\ fres[3] = fres[1]

\* ------------------------------------------------------ _sanitize_filename
\* A name is a sequence of characters.
InvalidChars == {"\\", "/", "*", "?", ":", "\"", "<", ">", "|"}
Whitespace == {" ", "\t", "\n"}
StripChars == {".", " "}
NameChars == {"/", ".", " ", "\t", "a"}
MaxName == 3

Names(n) == UNION {[1..k -> NameChars] : k \in 0..n}

\* re.sub(r'[\\/*?:"<>|]', '_', filename)
ReplaceInvalid(s) == [i \in 1..Len(s) |-> IF s[i] \in InvalidChars THEN "_" ELSE s[i]]

\* str.strip(chars): the characters of cs are removed from both ends.
RECURSIVE LStripOf(_, _)
LStripOf(s, cs) ==
    IF s # <<>> /\ Head(s) \in cs THEN LStripOf(Tail(s), cs) ELSE s

RECURSIVE RStripOf(_, _)
RStripOf(s, cs) ==
    IF s # <<>> /\ s[Len(s)] \in cs THEN RStripOf(SubSeq(s, 1, Len(s) - 1), cs) ELSE s

StripOf(s, cs) == RStripOf(LStripOf(s, cs), cs)

\* re.sub(r'\s+', '_', sanitized)
RECURSIVE CollapseSpace(_)
CollapseSpace(s) ==
    IF s = <<>> THEN <<>>
    ELSE IF Head(s) \in Whitespace
         THEN <<"_">> \o CollapseSpace(LStripOf(s, Whitespace))
         ELSE <<Head(s)>> \o CollapseSpace(Tail(s))

\* _sanitize_filename(filename)
sanitize_filename(s) == CollapseSpace(StripOf(ReplaceInvalid(s), StripChars))

InitSan ==
    /\ MainIdle /\ max_workers = 0
    /\ DLIdle /\ ExIdle /\ PipeIdle /\ CsvIdle /\ LockIdle
    /\ fpc = "input"
    /\ fres = <<>>
    /\ farg \in Names(MaxName)

SanApply ==
    /\ fpc = "input"
    /\ fpc' = "applied"
    /\ fres' = sanitize_filename(farg)
    /\ UNCHANGED <<farg, mainVars, dlVars, exVars, pipeVars, csvVars, lockVars>>

NextSan == SanApply

SpecSan == InitSan /\ [][NextSan]_vars

\* C15 (as claimed): the result holds none of \ / * ? : " < > | and no
\* whitespace, neither starts nor ends with a period or a space, and is the
\* input with the invalid characters replaced, the leading and trailing
\* whitespace and periods trimmed away, and each whitespace run that remains
\* turned into one '_'.
C15_SanitizeTrimsAndCollapses ==
    fpc = "applied" =>
        /\ \A i \in 1..Len(fres) : fres[i] \notin (InvalidChars \cup Whitespace)
        /\ fres # <<>> => (fres[1] \notin StripChars /\ fres[Len(fres)] \notin StripChars)
        /\ fres = CollapseSpace(StripOf(ReplaceInvalid(farg), Whitespace \cup {"."}))

\* --------------------------------------------------------- create_csv_file
\* Runs of the extraction that share a download directory: attempts of one
\* process one after the other, or processes running side by side.  The
\* clock counts half seconds.
MaxClock == 2
Runs == 1..MaxRuns
Labels == {<<"a">>, <<"a", ".">>, <<"/">>}

\* datetime.now().strftime("%Y%m%d_%H%M%S"): the time to the whole second.
Stamp(t) == t \div 2

\* Lines 150-156: <download_dir>/<name>/<name>_urls_<timestamp>.csv
LedgerPath(lbl, t) == <<sanitize_filename(lbl), sanitize_filename(lbl), "_urls_", Stamp(t)>>

\* open(csv_path, 'w') and the header row: the file is created, or emptied
\* when it exists.
OpenTruncate(fs, path) ==
    [q \in (DOMAIN fs) \cup {path} |-> IF q = path THEN <<>> ELSE fs[q]]

InitCsv ==
    /\ MainIdle /\ max_workers = 0
    /\ DLIdle /\ ExIdle /\ PipeIdle /\ FnIdle /\ LockIdle
    /\ now = 0
    /\ label \in [Runs -> Labels]
    /\ cpc = [r \in Runs |-> "new"]
    /\ cpath = [r \in Runs |-> <<>>]
    /\ files = <<>>
    /\ appended = [r \in Runs |-> 0]
    /\ summary = [r \in Runs |-> <<>>]

\* Time passes.
Tick ==
    /\ now < MaxClock
    /\ now' = now + 1
    /\ UNCHANGED <<label, cpc, cpath, files, appended, summary,
                   mainVars, dlVars, exVars, pipeVars, fnVars, lockVars>>

\* create_csv_file for run r; makedirs or open may raise, which ends the run.
CreateCsvFile(r) ==
    /\ cpc[r] = "new"
    /\ \E ok \in BOOLEAN :
         IF ok
         THEN LET path == LedgerPath(label[r], now)
              IN  /\ files' = OpenTruncate(files, path)
                  /\ cpath' = [cpath EXCEPT ![r] = path]
                  /\ cpc' = [cpc EXCEPT ![r] = "created"]
         ELSE /\ cpc' = [cpc EXCEPT ![r] = "done"]
              /\ UNCHANGED <<files, cpath>>
    /\ UNCHANGED <<now, label, appended, summary,
                   mainVars, dlVars, exVars, pipeVars, fnVars, lockVars>>

\* Run r appends the row of its next URL (open(csv_path, 'a') and writerow).
CsvAppend(r) ==
    /\ cpc[r] = "created"
    /\ appended[r] < MaxFound
    /\ files' = [files EXCEPT ![cpath[r]] = Append(@, <<r, appended[r] + 1>>)]
    /\ appended' = [appended EXCEPT ![r] = @ + 1]
    /\ UNCHANGED <<now, label, cpc, cpath, summary,
                   mainVars, dlVars, exVars, pipeVars, fnVars, lockVars>>

\* The extraction of run r returns.
CsvFinish(r) ==
    /\ cpc[r] = "created"
    /\ cpc' = [cpc EXCEPT ![r] = "done"]
    /\ UNCHANGED <<now, label, cpath, files, appended, summary,
                   mainVars, dlVars, exVars, pipeVars, fnVars, lockVars>>

\* Lines 1096-1106: the summary of a successful URL-only run r.  csv_files is
\* os.listdir of the location directory filtered on '.csv', in the order the
\* file system gives; its first entry is opened and its data rows counted.
CsvReport(r) ==
    /\ cpc[r] = "done"
    /\ cpath[r] # <<>>
    /\ \E first \in {q \in DOMAIN files : q[1] = sanitize_filename(label[r])} :
         summary' = [summary EXCEPT ![r] = <<first, Len(files[first])>>]
    /\ cpc' = [cpc EXCEPT ![r] = "reported"]
    /\ UNCHANGED <<now, label, cpath, files, appended,
                   mainVars, dlVars, exVars, pipeVars, fnVars, lockVars>>

NextCsv ==
    \/ Tick
    \/ \E r \in Runs : CreateCsvFile(r)
    \/ \E r \in Runs : CsvAppend(r)
    \/ \E r \in Runs : CsvFinish(r)
    \/ \E r \in Runs : CsvReport(r)

SpecCsv == InitCsv /\ [][NextCsv]_vars

\* C16 (as claimed): no two runs get the same ledger path, and the ledger of
\* a run holds exactly the rows that run appended, in order: no other run
\* emptied it or wrote into it.
C16_LedgerPathsNeverCollide ==
    /\ \A r1, r2 \in Runs :
         (r1 # r2 /\ cpath[r1] # <<>> /\ cpath[r2] # <<>>) => cpath[r1] # cpath[r2]
    /\ \A r \in Runs :
         cpath[r] # <<>> => files[cpath[r]] = [i \in 1..appended[r] |-> <<r, i>>]

\* C35: when no two runs share a ledger path, the summary of a URL-only run
\* names the ledger that run created and gives the number of rows that run
\* appended, also when the location directory holds ledgers of other runs.
C35_SummaryIsOfThisRun ==
    (\A r1, r2 \in Runs : (r1 # r2 /\ cpath[r1] # <<>>) => cpath[r1] # cpath[r2]) =>
        \A r \in Runs :
            summary[r] # <<>> => summary[r] = <<cpath[r], appended[r]>>

\* --------------------------------------------------------- save_url_to_csv
\* Threads of one scraper object that each fetch something over the network
\* and then call save_url_to_csv, up to MaxAppends times.  A row reaches the
\* file in two pieces.  A failing open or write raises before any piece of
\* the row is in the file.
MaxAppends == 2
Threads == 1..MaxWorkers

\* The positions inside "with self.csv_lock:".
InWriteSection == {"open", "write", "mid", "leave_ok", "leave_failed"}

\* threading.Lock.acquire: possible when no thread holds the lock.
LockFree(holder) == holder = 0

\* The exit of the with-statement: the lock is released on a normal exit
\* and when an exception passes through.
ReleaseOnlyOnSuccess(holder, failed) == IF failed THEN holder ELSE 0
ReleaseOnExit(holder, failed) == 0

InitLock ==
    /\ MainIdle /\ max_workers = MaxWorkers
    /\ DLIdle /\ ExIdle /\ PipeIdle /\ FnIdle /\ CsvIdle
    /\ csv_lock = 0
    /\ wpc = [t \in Threads |-> "idle"]
    /\ wfile = <<>>
    /\ wcalls = [t \in Threads |-> 0]
    /\ wret = [t \in Threads |-> "none"]

\* Thread t starts a network fetch (a page read or a download).
BeginFetch(t) ==
    /\ wpc[t] = "idle"
    /\ wcalls[t] < MaxAppends
    /\ wpc' = [wpc EXCEPT ![t] = "fetch"]
    /\ UNCHANGED <<csv_lock, wfile, wcalls, wret,
                   mainVars, dlVars, exVars, pipeVars, fnVars, csvVars>>

\* The fetch ends and t calls save_url_to_csv (line 178).
CallSave(t) ==
    /\ wpc[t] = "fetch"
    /\ wpc' = [wpc EXCEPT ![t] = "wait"]
    /\ wcalls' = [wcalls EXCEPT ![t] = @ + 1]
    /\ wret' = [wret EXCEPT ![t] = "none"]
    /\ UNCHANGED <<csv_lock, wfile,
                   mainVars, dlVars, exVars, pipeVars, fnVars, csvVars>>

\* Line 179: with self.csv_lock
Acquire(t) ==
    /\ wpc[t] = "wait"
    /\ LockFree(csv_lock)
    /\ csv_lock' = t
    /\ wpc' = [wpc EXCEPT ![t] = "open"]
    /\ UNCHANGED <<wfile, wcalls, wret,
                   mainVars, dlVars, exVars, pipeVars, fnVars, csvVars>>

\* Line 180: open(csv_path, 'a'), which may raise.
OpenAppend(t) ==
    /\ wpc[t] = "open"
    /\ \E ok \in BOOLEAN :
         wpc' = [wpc EXCEPT ![t] = IF ok THEN "write" ELSE "leave_failed"]
    /\ UNCHANGED <<csv_lock, wfile, wcalls, wret,
                   mainVars, dlVars, exVars, pipeVars, fnVars, csvVars>>

\* Lines 181-183: the first piece of the row is written, or the write raises.
WriteHead(t) ==
    /\ wpc[t] = "write"
    /\ \E ok \in BOOLEAN :
         IF ok
         THEN /\ wfile' = Append(wfile, <<t, wcalls[t], "head">>)
              /\ wpc' = [wpc EXCEPT ![t] = "mid"]
         ELSE /\ wpc' = [wpc EXCEPT ![t] = "leave_failed"]
              /\ UNCHANGED wfile
    /\ UNCHANGED <<csv_lock, wcalls, wret,
                   mainVars, dlVars, exVars, pipeVars, fnVars, csvVars>>

\* Lines 183-191: the rest of the row, the flush and the log lines.
WriteTail(t) ==
    /\ wpc[t] = "mid"
    /\ wfile' = Append(wfile, <<t, wcalls[t], "tail">>)
    /\ wpc' = [wpc EXCEPT ![t] = "leave_ok"]
    /\ UNCHANGED <<csv_lock, wcalls, wret,
                   mainVars, dlVars, exVars, pipeVars, fnVars, csvVars>>

\* The with-statement is left and the call returns True (line 192) or, from
\* the handler, False (lines 193-195).
LeaveSave(t) ==
    /\ wpc[t] \in {"leave_ok", "leave_failed"}
    /\ csv_lock' = ReleaseOnExit(csv_lock, wpc[t] = "leave_failed")
    /\ wret' = [wret EXCEPT ![t] = IF wpc[t] = "leave_ok" THEN "true" ELSE "false"]
    /\ wpc' = [wpc EXCEPT ![t] = "idle"]
    /\ UNCHANGED <<wfile, wcalls,
                   mainVars, dlVars, exVars, pipeVars, fnVars, csvVars>>

NextLock ==
    \/ \E t \in Threads : BeginFetch(t)
    \/ \E t \in Threads : CallSave(t)
    \/ \E t \in Threads : Acquire(t)
    \/ \E t \in Threads : OpenAppend(t)
    \/ \E t \in Threads : WriteHead(t)
    \/ \E t \in Threads : WriteTail(t)
    \/ \E t \in Threads : LeaveSave(t)

SpecLock == InitLock /\ [][NextLock]_vars

\* C17: at most one thread is inside the write section of save_url_to_csv;
\* a thread holds the lock exactly while it is inside that section of one
\* call, so not after a call that returned (True or, after a failed write,
\* False) and not during a network fetch; and the pieces in the file form
\* whole rows, each by one thread, except for the row being written.
C17_OneWriterAtATime ==
    /\ Cardinality({t \in Threads : wpc[t] \in InWriteSection}) <= 1
    /\ \A t \in Threads : (csv_lock = t) <=> (wpc[t] \in InWriteSection)
    /\ \A t \in Threads : wpc[t] \in {"idle", "fetch", "wait"} => csv_lock # t
    /\ \A i \in 1..Len(wfile) :
         IF wfile[i][3] = "head"
         THEN IF i < Len(wfile)
              THEN wfile[i + 1] = <<wfile[i][1], wfile[i][2], "tail">>
              ELSE wpc[wfile[i][1]] = "mid"
         ELSE i > 1 /\ wfile[i - 1] = <<wfile[i][1], wfile[i][2], "head">>

C17_Witness ==
    \E t1, t2 \in Threads :
        /\ t1 # t2
        /\ wpc[t1] = "mid" /\ csv_lock = t1
        /\ wpc[t2] = "wait"
        /\ Len(wfile) = 1

\* --------------------------------- the read of one displayed element's src
\* Lines 573-593.  fpc is the position: "read" before get_attribute of pass
\* farg.retry, "relocate" in the stale handler, "done" after the for loop,
\* "escaped" when an exception left the loop for the handler of line 613.
\* farg.held lists the srcs of the elements img_element has named, and fres
\* holds the result of each get_attribute call and current_url.
src_read_attempts == 3

ReadResults == {"ok", "stale", "error"}

\* Line 579: the stale handler re-locates unless the pass is the last.
RelocatesAfterStale(retry) == retry < 2

\* Line 574: range(3) has a further pass.
FurtherPassOffByOne(retry) == retry + 1 <= src_read_attempts
FurtherPass(retry) == retry + 1 < src_read_attempts

InitRead ==
    /\ MainIdle /\ max_workers = 0
    /\ DLIdle /\ ExIdle /\ PipeIdle /\ CsvIdle /\ LockIdle
    /\ fpc = "read"
    /\ \E src \in Srcs : farg = [retry |-> 0, held |-> <<src>>]
    /\ fres = [log |-> <<>>, assigned |-> FALSE, current_url |-> NoSrc]

\* One pass up to the end of its handler, the re-location excepted.
ReadSrc ==
    /\ fpc = "read"
    /\ \E r \in ReadResults :
         LET log == Append(fres.log, r)
             none == [log |-> log, assigned |-> TRUE, current_url |-> NoSrc]
         IN  CASE r = "ok" ->
                    /\ fres' = [log |-> log, assigned |-> TRUE,
                                current_url |-> farg.held[Len(farg.held)]]
                    /\ fpc' = "done"
                    /\ UNCHANGED farg
               [] r = "error" ->
                    /\ fres' = none
                    /\ fpc' = "done"
                    /\ UNCHANGED farg
               [] OTHER ->
                    IF RelocatesAfterStale(farg.retry)
                    THEN /\ fres' = [fres EXCEPT !.log = log]
                         /\ fpc' = "relocate"
                         /\ UNCHANGED farg
                    ELSE /\ fres' = none
                         /\ IF FurtherPass(farg.retry)
                            THEN /\ fpc' = "read"
                                 /\ farg' = [farg EXCEPT !.retry = farg.retry + 1]
                            ELSE /\ fpc' = "done"
                                 /\ UNCHANGED farg
    /\ UNCHANGED <<mainVars, dlVars, exVars, pipeVars, csvVars, lockVars>>

\* Lines 582-588: the elements of the selector are waited for again and
\* img_element becomes the first of them; a timeout of the wait leaves the
\* read as an exception.
Relocate ==
    /\ fpc = "relocate"
    /\ \E located \in BOOLEAN, src \in Srcs :
         IF located
         THEN /\ farg' = [retry |-> farg.retry + 1, held |-> Append(farg.held, src)]
              /\ fpc' = IF FurtherPass(farg.retry) THEN "read" ELSE "done"
         ELSE /\ fpc' = "escaped"
              /\ UNCHANGED farg
    /\ UNCHANGED <<fres, mainVars, dlVars, exVars, pipeVars, csvVars, lockVars>>

NextRead == ReadSrc \/ Relocate

SpecRead == InitRead /\ [][NextRead]_vars

\* C26: get_attribute is called at most three times for one displayed
\* element; every call before the last ended in a stale reference and was
\* followed by a re-location; the read ends with the src of the element last
\* located when a call succeeded, with no URL at once after another failure,
\* and with no URL after the third stale reference; the only exception that
\* leaves the read is a failed re-location after a first or second stale
\* reference.
C26_AtMostThreeReads ==
    fpc \in {"read", "relocate", "done", "escaped"} =>
        LET log == fres.log
            n == Len(log)
        IN  /\ n <= src_read_attempts
            /\ \A k \in 1..(n - 1) : log[k] = "stale"
            /\ fpc = "read" => Len(farg.held) = n + 1 /\ farg.retry = n
            /\ fpc = "done" =>
                 /\ n >= 1 /\ fres.assigned
                 /\ log[n] = "ok" => fres.current_url = farg.held[n]
                 /\ log[n] = "error" => fres.current_url = NoSrc
                 /\ log[n] = "stale" => (n = src_read_attempts /\ fres.current_url = NoSrc)
            /\ fpc = "escaped" => (n < src_read_attempts /\ log[n] = "stale")

C26_Witness ==
    /\ fpc = "done" /\ fres.log = <<"stale", "stale", "stale">>
    /\ Len(farg.held) = 3 /\ fres.current_url = NoSrc

\* ------------------------------------------- the file name of download_image
\* The part of a URL after its host, as a string of characters and letter
\* runs: "%2E" is a percent-encoded period, "?" starts the query.
UrlChars == {"/", ".", "%2E", "?", "jpg", "png", "php"}
MaxPath == 3

Urls(n) == UNION {[1..k -> UrlChars] : k \in 0..n}

\* urlparse(url).path: what precedes the query.
RECURSIVE UrlPath(_)
UrlPath(u) ==
    IF u = <<>> \/ Head(u) = "?" THEN <<>>
    ELSE <<Head(u)>> \o UrlPath(Tail(u))

\* unquote(path): percent-encoded characters are decoded.
Unquote(s) == [i \in 1..Len(s) |-> IF s[i] = "%2E" THEN "." ELSE s[i]]

LastIndexOf(s, ch) ==
    LET at == {i \in 1..Len(s) : s[i] = ch}
    IN  IF at = {} THEN 0 ELSE CHOOSE i \in at : \A j \in at : j <= i

\* os.path.splitext(path)[1]: from the last period of the last component
\* to the end, unless only periods precede it in that component.
SplitExt(path) ==
    LET sep == LastIndexOf(path, "/")
        dot == LastIndexOf(path, ".")
    IN  IF dot > sep /\ \E k \in (sep + 1)..(dot - 1) : path[k] # "."
        THEN SubSeq(path, dot, Len(path))
        ELSE <<>>

\* Lines 844-852: the extension and the file name.
ExtOfUrl(url) ==
    LET ext == SplitExt(Unquote(UrlPath(url)))
    IN  IF ext = <<>> \/ ext = <<".">> THEN <<".", "jpg">> ELSE ext

ImageFileName(lbl, index, url) ==
    <<sanitize_filename(lbl), "_", index>> \o ExtOfUrl(url)

InitName ==
    /\ MainIdle /\ max_workers = 0
    /\ DLIdle /\ ExIdle /\ PipeIdle /\ CsvIdle /\ LockIdle
    /\ fpc = "input"
    /\ fres = <<>>
    /\ farg \in [label : Labels, index : 1..MaxUrls, url : Urls(MaxPath)]

NameApply ==
    /\ fpc = "input"
    /\ fpc' = "applied"
    /\ fres' = ImageFileName(farg.label, farg.index, farg.url)
    /\ UNCHANGED <<farg, mainVars, dlVars, exVars, pipeVars, csvVars, lockVars>>

NextName == NameApply

SpecName == InitName /\ [][NextName]_vars

\* The extensions of image files.
RecognizedExts == {<<".", "jpg">>, <<".", "png">>}

\* C30 (as claimed): the file name is the sanitized label, '_', the 1-based
\* position and an extension; the extension is the one of the URL's path when
\* that is a recognized image extension, and '.jpg' when the path has no
\* extension or an unrecognized one.
C30_ExtensionRecognizedOrJpg ==
    fpc = "applied" =>
        LET ext == SplitExt(Unquote(UrlPath(farg.url)))
        IN  fres = <<sanitize_filename(farg.label), "_", farg.index>>
                   \o (IF ext \in RecognizedExts THEN ext ELSE <<".", "jpg">>)

====
